---- MODULE Spec2Model ----
(***************************************************************************)
(* github-backup.py: the paginated, rate-limit aware API walks             *)
(* (list_user_repositories, save_repository_issues, save_issue) and the    *)
(* per-repository pipeline driven by main (makedirs, write_repository_info,*)
(* clone_repository, save_repository_issues), as one sequential process.   *)
(***************************************************************************)
EXTENDS Integers, Sequences, FiniteSets, TLC

VARIABLES
  pc,             \* position of the single thread of main()
  err,            \* the exception that ended the run, "none" while running
  creds,          \* USERNAME and TOKEN are both set
  archive,        \* argv.archive
  backup_issues,  \* argv.backup_issues
  fs,             \* the filesystem: path -> node
  now,            \* the wall clock when the last request was sent, in seconds
  r,              \* the last response (the local r of the walks); of a failed one, its status
  delay,          \* the delay wait_for_rate_limit last reported (0: none)
  next_page,      \* list_user_repositories: next_page
  repos,          \* list_user_repositories: records of the page not yet yielded
  repo,           \* main: the record being backed up
  issues_next,    \* save_repository_issues: next_page
  issues,         \* save_repository_issues: issues of the page not yet saved
  issue,          \* save_issue: the issue being saved
  comments_next,  \* save_issue: next_page
  comments,       \* save_issue: comments
  log,            \* history: requests, yields and pipeline steps, in order
  fs0             \* history: the filesystem when main() was entered

vars == <<pc, err, creds, archive, backup_issues, fs, now, r, delay,
          next_page, repos, repo, issues_next, issues, issue, comments_next,
          comments, log, fs0>>

(***************************************************************************)
(* Bounds of the model.                                                    *)
(***************************************************************************)
MaxRecords == 4     \* records (repositories, issues, comments) the server returns in a run
MaxTime == 1        \* seconds that pass in a run
\* the server's budget of records is shared out: half of it may be
\* repositories, a page holds as many records as there may be repositories,
\* and one next pointer is handed out for every four records
MaxRepos == MaxRecords \div 2
MaxPageLen == MaxRepos
MaxLinks == MaxRecords \div 4

SecondsPerDay == 86400  \* timedelta.seconds lies in 0 .. 86399

Min(a, b) == IF a < b THEN a ELSE b
Max(S) == CHOOSE x \in S : \A y \in S : y <= x

(***************************************************************************)
(* URLs, records and responses.                                            *)
(***************************************************************************)
NoName == <<"", "">>
None == [ep |-> "none", repo |-> NoName, num |-> 0, page |-> 0]
Url(ep, name, num, page) == [ep |-> ep, repo |-> name, num |-> num, page |-> page]

ReposUrl == Url("repos", NoName, 0, 1)
IssuesUrl(rec) == Url("issues", rec.full_name, 0, 1)

RepoRecord(owner, name, private) ==
  [full_name |-> <<owner, name>>, clone_url |-> <<"git", owner, name>>,
   private |-> private]

RepoRecords ==
  { RepoRecord("a", "x", FALSE), RepoRecord("b", "y", FALSE),
    RepoRecord("a", "z", TRUE) }

NoRepo == RepoRecord("", "", FALSE)

IssueRecord(name, n) ==
  [number |-> n, url |-> Url("issue", name, n, 0),
   comments_url |-> Url("comments", name, n, 1)]

NoIssue == IssueRecord(NoName, 0)

CommentRecord(n) == [id |-> n]

NoLinks == [k \in {} |-> k]
NoHeaders == [k \in {} |-> k]
RateLimit(remaining, reset) ==
  ("x-ratelimit-remaining" :> remaining) @@ ("x-ratelimit-reset" :> reset)

NoResponse == [status |-> 0, links |-> NoLinks, headers |-> NoHeaders,
               valid |-> FALSE, json |-> <<>>]

(***************************************************************************)
(* History: what the server has returned so far.                           *)
(***************************************************************************)
\* the records the server has returned so far
RECURSIVE Served(_)
Served(l) ==
  IF l = <<>> THEN 0
  ELSE Served(Tail(l)) + (IF Head(l).op = "GET" THEN Len(Head(l).body) ELSE 0)

\* the next pointers the server has handed out so far
\* the records the server has returned so far to requests of endpoint ep
RECURSIVE ServedOf(_, _)
ServedOf(l, ep) ==
  IF l = <<>> THEN 0
  ELSE ServedOf(Tail(l), ep)
       + (IF Head(l).op = "GET" /\ Head(l).url.ep = ep
          THEN Len(Head(l).body) ELSE 0)

RECURSIVE Linked(_)
Linked(l) ==
  IF l = <<>> THEN 0
  ELSE Linked(Tail(l))
       + (IF Head(l).op = "GET" /\ Head(l).next.ep # "none" THEN 1 ELSE 0)

(***************************************************************************)
(* The remote API: every response it may give to a GET of url at time t.   *)
(***************************************************************************)
PageLens == 0..Min(MaxPageLen, MaxRecords - Served(log))

Bodies(url) ==
  CASE url.ep = "repos" ->
         UNION { [1..k -> RepoRecords] :
                   k \in 0..Min(Max(PageLens), MaxRepos - ServedOf(log, "repos")) }
    [] url.ep = "issues" ->
         { [i \in 1..k |-> IssueRecord(url.repo, Served(log) + i)] : k \in PageLens }
    [] url.ep = "comments" ->
         { [i \in 1..k |-> CommentRecord(Served(log) + i)] : k \in PageLens }

Links(url) ==
  IF Linked(log) < MaxLinks
  THEN {NoLinks, [next |-> [url |-> [url EXCEPT !.page = @ + 1]]]}
  ELSE {NoLinks}

\* x-ratelimit-reset, as seconds from the moment of the response
ResetOffsets == {-2, 2}

Headers(t) ==
  {NoHeaders, ("x-ratelimit-remaining" :> 0), RateLimit(2, t + 2)}
  \cup { RateLimit(0, t + d) : d \in ResetOffsets }

\* a 200 may carry any of the headers and any page; a 304 or a 404 comes
\* without a body, or (304) with a page as a 200 would carry it
Responses(url, t) ==
  { [status |-> s, links |-> NoLinks, headers |-> RateLimit(2, t + 2),
     valid |-> FALSE, json |-> <<>>] : s \in {304, 404} }
  \cup
  { [status |-> 200, links |-> l, headers |-> h, valid |-> TRUE, json |-> b] :
      l \in Links(url), h \in Headers(t), b \in Bodies(url) }
  \cup
  { [status |-> 304, links |-> l, headers |-> RateLimit(2, t + 2),
     valid |-> TRUE, json |-> b] : l \in Links(url), b \in Bodies(url) }

(***************************************************************************)
(* The next pointer a response carries, as the server sent it.             *)
(***************************************************************************)
Pointer(resp) ==
  IF DOMAIN resp.links = {} THEN None ELSE resp.links["next"].url

(***************************************************************************)
(* Pure helpers of the program.                                            *)
(***************************************************************************)
\* faulty variant: the client works out the page itself
next_page_url_rebuilt(resp) ==
  IF "next" \in DOMAIN resp.links
  THEN [resp.links["next"].url EXCEPT !.page = @ + 1]
  ELSE None

\* faulty variant: the pointer of the response is ignored
next_page_url_ignored(resp) == None

\* next_page_url(r)
next_page_url(resp) ==
  IF "next" \in DOMAIN resp.links THEN resp.links["next"].url ELSE None

\* requests.Response.raise_for_status: raises for 4xx and 5xx only
raise_for_status(resp) == 400 <= resp.status /\ resp.status < 600

\* the check at the head of every page fetch: status != 200, then
\* raise_for_status()
StatusRaises(resp) == resp.status # 200 /\ raise_for_status(resp)

\* wait_for_rate_limit(r): a header lookup raises KeyError
RateLimitRaises(resp) ==
  \/ "x-ratelimit-remaining" \notin DOMAIN resp.headers
  \/ /\ resp.headers["x-ratelimit-remaining"] <= 1
     /\ "x-ratelimit-reset" \notin DOMAIN resp.headers

\* wait_for_rate_limit(r): the delay it reports (0: nothing reported);
\* it returns without sleeping
wait_for_rate_limit(resp, t) ==
  IF resp.headers["x-ratelimit-remaining"] <= 1
  THEN ((resp.headers["x-ratelimit-reset"] - t) % SecondsPerDay) + 1
  ELSE 0

\* repo_path(base, repo)
dest == <<"dest">>
repo_path(base, rec) == base \o rec.full_name

(***************************************************************************)
(* The filesystem.                                                         *)
(***************************************************************************)
Dir == [kind |-> "dir", complete |-> TRUE, data |-> <<>>]
File(data) == [kind |-> "file", complete |-> TRUE, data |-> data]
Partial == [kind |-> "file", complete |-> FALSE, data |-> <<>>]
Mirror(url, complete) == [kind |-> "mirror", complete |-> complete, data |-> url]

NoFiles == [p \in {} |-> Dir]
IsPrefix(p, q) == Len(p) <= Len(q) /\ SubSeq(q, 1, Len(p)) = p
Prefixes(p) == { SubSeq(p, 1, k) : k \in 1..Len(p) }

\* os.makedirs(p) raises FileExistsError when p exists
makedirs(f, p) == f @@ [q \in Prefixes(p) |-> Dir]
\* open(p, 'w') and write
write(f, p, node) == (p :> node) @@ f
\* shutil.rmtree(p)
rmtree(f, p) == [q \in { x \in DOMAIN f : ~IsPrefix(p, x) } |-> f[q]]

InitialTrees ==
  { NoFiles, makedirs(NoFiles, dest),
    write(makedirs(NoFiles, dest), dest \o <<"stale">>, File(<<"old">>)) }

(***************************************************************************)
(* History events.                                                         *)
(***************************************************************************)
\* a request, the page that came back and whether the fetch went through
GetEvent(url, resp, ok) ==
  [op |-> "GET", ok |-> ok, url |-> url,
   next |-> IF ok THEN Pointer(resp) ELSE None,
   body |-> IF ok THEN resp.json ELSE <<>>]
\* a record handed to the loop of main()
YieldEvent(rec) == [op |-> "yield", ok |-> TRUE, rec |-> rec]
RECURSIVE Count(_, _)
Count(l, op) ==
  IF l = <<>> THEN 0
  ELSE Count(Tail(l), op) + (IF Head(l).op = op THEN 1 ELSE 0)
\* the pipeline step op of the no-th record yielded (for issue number num,
\* when it is about one) and how it ended
StepEvent(op, num, ok) ==
  [op |-> op, ok |-> ok, no |-> Count(log, "yield"), num |-> num]

(***************************************************************************)
(* Init: the state when main() is entered.                                 *)
(***************************************************************************)
Init ==
  /\ pc = "start"
  /\ err = "none"
  /\ creds \in BOOLEAN
  /\ archive \in BOOLEAN
  /\ backup_issues \in BOOLEAN
  /\ fs \in InitialTrees
  /\ now = 0
  /\ r = NoResponse
  /\ delay = 0
  /\ next_page = None
  /\ repos = <<>>
  /\ repo = NoRepo
  /\ issues_next = None
  /\ issues = <<>>
  /\ issue = NoIssue
  /\ comments_next = None
  /\ comments = <<>>
  /\ log = <<>>
  /\ fs0 = fs

\* what the run was started with
Options == <<creds, archive, backup_issues, fs0>>
\* the locals of main() and of the functions it calls
Locals == <<r, delay, next_page, repos, repo, issues_next, issues, issue,
            comments_next, comments>>

\* faulty variant: the loop of main() catches the exception and goes on
Raise_caught(e) == pc' = "list" /\ err' = e /\ UNCHANGED Locals

\* an exception nobody catches ends the process, and its locals with it;
\* last is what remains of the response the exception came from
Exit(e, last) ==
  /\ pc' = "failed"
  /\ err' = e
  /\ r' = last
  /\ delay' = 0
  /\ next_page' = None
  /\ repos' = <<>>
  /\ repo' = NoRepo
  /\ issues_next' = None
  /\ issues' = <<>>
  /\ issue' = NoIssue
  /\ comments_next' = None
  /\ comments' = <<>>

\* an exception raised by a step that is no request
Raise(e) == Exit(e, NoResponse)

(***************************************************************************)
(* main(): credentials and the destination root.                           *)
(***************************************************************************)
main_credentials ==
  /\ pc = "start"
  /\ IF creds
     THEN pc' = "makedest" /\ err' = err
     ELSE pc' = "exit" /\ err' = "SystemExit"
  /\ UNCHANGED <<Options, Locals, fs, now, log>>

\* faulty variant: an existing destination root is accepted (exist_ok)
main_makedirs_exist_ok ==
  /\ pc = "makedest"
  /\ fs' = makedirs(fs, dest)
  /\ next_page' = ReposUrl
  /\ pc' = "list"
  /\ err' = err
  /\ UNCHANGED <<Options, now, log, r, delay, repos, repo, issues_next, issues,
                 issue, comments_next, comments>>

\* os.makedirs(dest), and the generator main() will iterate
main_makedirs ==
  /\ pc = "makedest"
  /\ IF dest \in DOMAIN fs
     THEN Raise("FileExistsError") /\ UNCHANGED fs
     ELSE /\ fs' = makedirs(fs, dest)
          /\ next_page' = ReposUrl
          /\ pc' = "list"
          /\ err' = err
          /\ UNCHANGED <<r, delay, repos, repo, issues_next, issues, issue,
                         comments_next, comments>>
  /\ UNCHANGED <<Options, now, log>>

(***************************************************************************)
(* list_user_repositories(): the generator main() iterates.                *)
(***************************************************************************)
\* what a page fetch of list_user_repositories and save_repository_issues
\* raises: status check, wait_for_rate_limit, then r.json()
PageError(resp) ==
  IF StatusRaises(resp) THEN "HTTPError"
  ELSE IF RateLimitRaises(resp) THEN "KeyError"
  ELSE IF ~resp.valid THEN "ValueError"
  ELSE "none"

\* what a page fetch of save_issue raises: status check, r.json(), then
\* wait_for_rate_limit
CommentPageError(resp) ==
  IF StatusRaises(resp) THEN "HTTPError"
  ELSE IF ~resp.valid THEN "ValueError"
  ELSE IF RateLimitRaises(resp) THEN "KeyError"
  ELSE "none"

\* the moments the next request may be sent at: no time, or some, has passed
\* since the last one
Times == now..MaxTime

\* requests.get(url) at time t: the page is accepted, or e is raised and
\* the status is all that is known of the response
Get(url, t, resp, e) ==
  /\ now' = t
  /\ log' = Append(log, GetEvent(url, resp, e = "none"))
  /\ IF e = "none"
     THEN r' = resp /\ delay' = wait_for_rate_limit(resp, t) /\ UNCHANGED <<pc, err>>
     ELSE Exit(e, [NoResponse EXCEPT !.status = resp.status])

\* faulty variant: the next page is fetched while records of the last one wait
list_user_repositories_fetch_eager ==
  /\ pc = "list"
  /\ next_page # None
  /\ \E t \in Times : \E resp \in Responses(next_page, t) :
       /\ Get(next_page, t, resp, PageError(resp))
       /\ PageError(resp) = "none" =>
            /\ next_page' = next_page_url(resp)
            /\ repos' = repos \o resp.json
            /\ UNCHANGED <<repo, issues_next, issues, issue, comments_next,
                           comments>>
  /\ UNCHANGED <<Options, fs>>

list_user_repositories_fetch ==
  /\ pc = "list"
  /\ repos = <<>>
  /\ next_page # None
  /\ \E t \in Times : \E resp \in Responses(next_page, t) :
       /\ Get(next_page, t, resp, PageError(resp))
       /\ PageError(resp) = "none" =>
            /\ next_page' = next_page_url(resp)
            /\ repos' = resp.json
            /\ UNCHANGED <<repo, issues_next, issues, issue, comments_next,
                           comments>>
  /\ UNCHANGED <<Options, fs>>

\* faulty variant: private records are backed up like the others
main_next_repo_no_skip ==
  /\ pc = "list"
  /\ repos # <<>>
  /\ repo' = Head(repos)
  /\ repos' = Tail(repos)
  /\ log' = Append(log, YieldEvent(Head(repos)))
  /\ pc' = "mkdir"
  /\ UNCHANGED <<err, Options, fs, now, r, delay, next_page, issues_next,
                 issues, issue, comments_next, comments>>

\* the generator yields the next record to the loop of main(), which skips
\* a private one
main_next_repo ==
  /\ pc = "list"
  /\ repos # <<>>
  /\ repo' = Head(repos)
  /\ repos' = Tail(repos)
  /\ log' = Append(log, YieldEvent(Head(repos)))
  /\ pc' = IF Head(repos).private THEN "list" ELSE "mkdir"
  /\ UNCHANGED <<err, Options, fs, now, r, delay, next_page, issues_next,
                 issues, issue, comments_next, comments>>

\* the generator is exhausted: main() returns
main_done ==
  /\ pc = "list"
  /\ repos = <<>>
  /\ next_page = None
  /\ pc' = "done"
  /\ UNCHANGED <<err, Options, Locals, fs, now, log>>

(***************************************************************************)
(* The pipeline of one repository: main() lines 171-177.                   *)
(***************************************************************************)
path == repo_path(dest, repo)
repo_dir == path \o <<"repository">>
tar_file == path \o <<"repository.tar.xz">>
issues_dir == path \o <<"issues">>
info_file == path \o <<"repository-info.json">>
issue_file(i) == issues_dir \o <<ToString(i.number) \o ".json">>
comments_file(i) == issues_dir \o <<ToString(i.number) \o ".comments.json">>

\* where main() goes on after clone_repository returned
AfterClone == IF backup_issues THEN "issues_mkdir" ELSE "list"

Step(op, ok) == log' = Append(log, StepEvent(op, 0, ok))
IssueStep(op, ok) == log' = Append(log, StepEvent(op, issue.number, ok))

\* the step went through: main() goes on at position p
Goto(p) == pc' = p /\ err' = err /\ UNCHANGED Locals

\* faulty variant: an existing directory of the repository is accepted
main_makedirs_path_exist_ok ==
  /\ pc = "mkdir"
  /\ Goto("info")
  /\ fs' = makedirs(fs, path)
  /\ Step("mkdir", TRUE)
  /\ UNCHANGED <<Options, now>>

\* os.makedirs(path)
main_makedirs_path ==
  /\ pc = "mkdir"
  /\ IF path \in DOMAIN fs
     THEN Raise("FileExistsError") /\ UNCHANGED fs /\ Step("mkdir", FALSE)
     ELSE Goto("info") /\ fs' = makedirs(fs, path) /\ Step("mkdir", TRUE)
  /\ UNCHANGED <<Options, now>>

\* write_repository_info(path, repo): open() raises, or the record is written
write_repository_info ==
  /\ pc = "info"
  /\ \/ /\ Goto("clone")
        /\ fs' = write(fs, info_file, File(<<repo>>))
        /\ Step("info", TRUE)
     \/ /\ Raise("OSError")
        /\ fs' = fs
        /\ Step("info", FALSE)
  /\ UNCHANGED <<Options, now>>

\* faulty variant: the exit status of git is not checked (subprocess.call)
clone_repository_clone_unchecked ==
  /\ pc = "clone"
  /\ \/ /\ fs' = write(fs, repo_dir, Mirror(repo.clone_url, TRUE))
        /\ Step("clone", TRUE)
     \/ /\ fs' \in {fs, write(fs, repo_dir, Mirror(repo.clone_url, FALSE))}
        /\ Step("clone", FALSE)
  /\ Goto(IF archive THEN "taropen" ELSE AfterClone)
  /\ UNCHANGED <<Options, now>>

\* clone_repository: subprocess.check_call(git clone --mirror); a git that
\* fails leaves nothing or a partial mirror
clone_repository_clone ==
  /\ pc = "clone"
  /\ \/ /\ Goto(IF archive THEN "taropen" ELSE AfterClone)
        /\ fs' = write(fs, repo_dir, Mirror(repo.clone_url, TRUE))
        /\ Step("clone", TRUE)
     \/ /\ Raise("CalledProcessError")
        /\ fs' \in {fs, write(fs, repo_dir, Mirror(repo.clone_url, FALSE))}
        /\ Step("clone", FALSE)
  /\ UNCHANGED <<Options, now>>

\* clone_repository: tarfile.open(repository.tar.xz, 'w:xz') creates the file
clone_repository_open ==
  /\ pc = "taropen"
  /\ \/ /\ Goto("taradd")
        /\ fs' = write(fs, tar_file, Partial)
        /\ UNCHANGED log
     \/ /\ Raise("OSError")
        /\ fs' = fs
        /\ Step("archive", FALSE)
  /\ UNCHANGED <<Options, now>>

\* faulty variant: the mirror is removed whether or not the archive was written
clone_repository_add_always_cleans ==
  /\ pc = "taradd"
  /\ \/ /\ Goto("rmtree")
        /\ fs' = write(fs, tar_file, File(<<fs[repo_dir]>>))
        /\ Step("archive", TRUE)
     \/ /\ Raise("OSError")
        /\ fs' = rmtree(fs, repo_dir)
        /\ Step("archive", FALSE)
  /\ UNCHANGED <<Options, now>>

\* clone_repository: f.add(repo_dir) and the close at the end of the with
\* block; an exception leaves what has been written so far
clone_repository_add ==
  /\ pc = "taradd"
  /\ \/ /\ Goto("rmtree")
        /\ fs' = write(fs, tar_file, File(<<fs[repo_dir]>>))
        /\ Step("archive", TRUE)
     \/ /\ Raise("OSError")
        /\ fs' = fs
        /\ Step("archive", FALSE)
  /\ UNCHANGED <<Options, now>>

\* faulty variant: the mirror stays beside the archive
clone_repository_rmtree_kept ==
  /\ pc = "rmtree"
  /\ Goto(AfterClone)
  /\ fs' = fs
  /\ Step("rmtree", TRUE)
  /\ UNCHANGED <<Options, now>>

\* clone_repository: shutil.rmtree(repo_dir)
clone_repository_rmtree ==
  /\ pc = "rmtree"
  /\ Goto(AfterClone)
  /\ fs' = rmtree(fs, repo_dir)
  /\ Step("rmtree", TRUE)
  /\ UNCHANGED <<Options, now>>

(***************************************************************************)
(* save_repository_issues(path, repo) and save_issue(issues_dir, issue).   *)
(***************************************************************************)
\* os.makedirs(issues_dir) and the first next_page
save_repository_issues_makedirs ==
  /\ pc = "issues_mkdir"
  /\ IF issues_dir \in DOMAIN fs
     THEN Raise("FileExistsError") /\ UNCHANGED fs /\ Step("issues", FALSE)
     ELSE /\ fs' = makedirs(fs, issues_dir)
          /\ issues_next' = IssuesUrl(repo)
          /\ pc' = "issues"
          /\ err' = err
          /\ Step("issues", TRUE)
          /\ UNCHANGED <<r, delay, next_page, repos, repo, issues, issue,
                         comments_next, comments>>
  /\ UNCHANGED <<Options, now>>

save_repository_issues_fetch ==
  /\ pc = "issues"
  /\ issues = <<>>
  /\ issues_next # None
  /\ \E t \in Times : \E resp \in Responses(issues_next, t) :
       /\ Get(issues_next, t, resp, PageError(resp))
       /\ PageError(resp) = "none" =>
            /\ issues_next' = next_page_url(resp)
            /\ issues' = resp.json
            /\ UNCHANGED <<next_page, repos, repo, issue, comments_next,
                           comments>>
  /\ UNCHANGED <<Options, fs>>

\* faulty variant: the issue file is written before the comments are fetched
save_issue_enter_writes_first ==
  /\ pc = "issues"
  /\ issues # <<>>
  /\ issue' = Head(issues)
  /\ issues' = Tail(issues)
  /\ comments' = <<>>
  /\ comments_next' = Head(issues).comments_url
  /\ fs' = write(fs, issue_file(Head(issues)), File(<<Head(issues)>>))
  /\ pc' = "comments"
  /\ UNCHANGED <<err, Options, now, log, r, delay, next_page, repos, repo,
                 issues_next>>

\* for issue in r.json(): save_issue(issues_dir, issue) is entered
save_issue_enter ==
  /\ pc = "issues"
  /\ issues # <<>>
  /\ issue' = Head(issues)
  /\ issues' = Tail(issues)
  /\ comments' = <<>>
  /\ comments_next' = Head(issues).comments_url
  /\ pc' = "comments"
  /\ UNCHANGED <<err, Options, fs, now, log, r, delay, next_page, repos, repo,
                 issues_next>>

\* save_repository_issues returns to the loop of main()
save_repository_issues_return ==
  /\ pc = "issues"
  /\ issues = <<>>
  /\ issues_next = None
  /\ pc' = "list"
  /\ UNCHANGED <<err, Options, Locals, fs, now, log>>

\* faulty variant: a comment page that cannot be fetched costs only its issue
save_issue_fetch_skips_issue ==
  /\ pc = "comments"
  /\ comments_next # None
  /\ \E t \in Times : \E resp \in Responses(comments_next, t) :
       /\ now' = t
       /\ log' = Append(log, GetEvent(comments_next, resp,
                                      CommentPageError(resp) = "none"))
       /\ IF CommentPageError(resp) = "none"
          THEN /\ r' = resp
               /\ delay' = wait_for_rate_limit(resp, t)
               /\ comments' = comments \o resp.json
               /\ comments_next' = next_page_url(resp)
               /\ UNCHANGED <<pc, err>>
          ELSE /\ pc' = "issues"
               /\ UNCHANGED <<err, r, delay, comments, comments_next>>
  /\ UNCHANGED <<Options, fs, next_page, repos, repo, issues_next, issues,
                 issue>>

\* faulty variant: each page replaces the comments gathered so far
save_issue_fetch_overwrites ==
  /\ pc = "comments"
  /\ comments_next # None
  /\ \E t \in Times : \E resp \in Responses(comments_next, t) :
       /\ Get(comments_next, t, resp, CommentPageError(resp))
       /\ CommentPageError(resp) = "none" =>
            /\ comments' = resp.json
            /\ comments_next' = next_page_url(resp)
            /\ UNCHANGED <<next_page, repos, repo, issues_next, issues, issue>>
  /\ UNCHANGED <<Options, fs>>

save_issue_fetch ==
  /\ pc = "comments"
  /\ comments_next # None
  /\ \E t \in Times : \E resp \in Responses(comments_next, t) :
       /\ Get(comments_next, t, resp, CommentPageError(resp))
       /\ CommentPageError(resp) = "none" =>
            /\ comments' = comments \o resp.json
            /\ comments_next' = next_page_url(resp)
            /\ UNCHANGED <<next_page, repos, repo, issues_next, issues, issue>>
  /\ UNCHANGED <<Options, fs>>

\* save_issue: <number>.json
save_issue_write_issue ==
  /\ pc = "comments"
  /\ comments_next = None
  /\ \/ /\ Goto("write_comments")
        /\ fs' = write(fs, issue_file(issue), File(<<issue>>))
        /\ IssueStep("issue", TRUE)
     \/ /\ Raise("OSError")
        /\ fs' = fs
        /\ IssueStep("issue", FALSE)
  /\ UNCHANGED <<Options, now>>

\* faulty variant: a failed write of the comments takes the issue file back
save_issue_write_comments_rollback ==
  /\ pc = "write_comments"
  /\ \/ /\ Goto("issues")
        /\ fs' = write(fs, comments_file(issue), File(comments))
        /\ IssueStep("comments", TRUE)
     \/ /\ Raise("OSError")
        /\ fs' = rmtree(fs, issue_file(issue))
        /\ IssueStep("comments", FALSE)
  /\ UNCHANGED <<Options, now>>

\* save_issue: <number>.comments.json
save_issue_write_comments ==
  /\ pc = "write_comments"
  /\ \/ /\ Goto("issues")
        /\ fs' = write(fs, comments_file(issue), File(comments))
        /\ IssueStep("comments", TRUE)
     \/ /\ Raise("OSError")
        /\ fs' = fs
        /\ IssueStep("comments", FALSE)
  /\ UNCHANGED <<Options, now>>

Next ==
  \/ main_credentials
  \/ main_makedirs
  \/ list_user_repositories_fetch
  \/ main_next_repo
  \/ main_done
  \/ main_makedirs_path
  \/ write_repository_info
  \/ clone_repository_clone
  \/ clone_repository_open
  \/ clone_repository_add
  \/ clone_repository_rmtree
  \/ save_repository_issues_makedirs
  \/ save_repository_issues_fetch
  \/ save_issue_enter
  \/ save_repository_issues_return
  \/ save_issue_fetch
  \/ save_issue_write_issue
  \/ save_issue_write_comments

Spec == Init /\ [][Next]_vars

(***************************************************************************)
(* wait_for_rate_limit on its own: one response, at one moment.            *)
(***************************************************************************)
\* x-ratelimit-remaining of the response
Remainings == 0..3

\* x-ratelimit-reset, as seconds from datetime.now(): passed, now, ahead
\* by less than a day, by a day and by more than a day
GovernorOffsets ==
  {-SecondsPerDay - 2, -2, -1, 0, 1, 60, SecondsPerDay - 1, SecondsPerDay,
   SecondsPerDay + 60}

GovernorHeaders(t) ==
  {NoHeaders}
  \cup { ("x-ratelimit-remaining" :> n) : n \in Remainings }
  \cup { RateLimit(n, t + d) : n \in Remainings, d \in GovernorOffsets }

GovernorInit ==
  /\ pc = "governor"
  /\ err = "none"
  /\ creds = TRUE
  /\ archive = FALSE
  /\ backup_issues = FALSE
  /\ fs = NoFiles
  /\ now \in 0..MaxTime
  /\ r \in { [NoResponse EXCEPT !.status = 200, !.headers = h] :
               h \in GovernorHeaders(now) }
  /\ delay = 0
  /\ next_page = None
  /\ repos = <<>>
  /\ repo = NoRepo
  /\ issues_next = None
  /\ issues = <<>>
  /\ issue = NoIssue
  /\ comments_next = None
  /\ comments = <<>>
  /\ log = <<>>
  /\ fs0 = fs

\* wait_for_rate_limit(r) is called at the moment now
governor_wait ==
  /\ pc = "governor"
  /\ IF RateLimitRaises(r)
     THEN /\ pc' = "failed"
          /\ err' = "KeyError"
          /\ delay' = delay
     ELSE /\ pc' = "governed"
          /\ err' = err
          /\ delay' = wait_for_rate_limit(r, now)
  /\ UNCHANGED <<Options, fs, now, log, r, next_page, repos, repo,
                 issues_next, issues, issue, comments_next, comments>>

GovernorNext == governor_wait

Governor == GovernorInit /\ [][GovernorNext]_vars

(***************************************************************************)
(* Reading the history.                                                    *)
(***************************************************************************)
Last(l) == l[Len(l)]

\* the step just taken sent a request
RequestSent == Len(log') = Len(log) + 1 /\ Last(log').op = "GET"

\* the requests of one walk, in order
Pages(ep, name, num) ==
  SelectSeq(log, LAMBDA e : /\ e.op = "GET"
                            /\ e.url.ep = ep
                            /\ e.url.repo = name
                            /\ e.url.num = num)
RepoPages == Pages("repos", NoName, 0)
IssuePages(name) == Pages("issues", name, 0)
CommentPages(name, num) == Pages("comments", name, num)

\* the records of the pages, page after page
RECURSIVE Records(_)
Records(pages) ==
  IF pages = <<>> THEN <<>> ELSE Head(pages).body \o Records(Tail(pages))

\* a walk over all the pages of the server: every page but the last carried
\* a next pointer
Complete(pages) ==
  /\ pages # <<>>
  /\ Last(pages).next = None
  /\ \A i \in 1..(Len(pages) - 1) : pages[i].next # None

\* the records main() received from the generator
Yields == SelectSeq(log, LAMBDA e : e.op = "yield")
Yielded == [k \in 1..Len(Yields) |-> Yields[k].rec]

\* the numbers of the issues of the no-th record that save_issue went on to write
IssueWrites(no) ==
  SelectSeq(log, LAMBDA e : e.op = "issue" /\ e.no = no)
Numbers(recs) == [i \in 1..Len(recs) |-> recs[i].number]
Entered(no) == [i \in 1..Len(IssueWrites(no)) |-> IssueWrites(no)[i].num]

\* the events of the no-th record that satisfy a test
Steps(no) ==
  SelectSeq(log, LAMBDA e : e.op \notin {"GET", "yield"} /\ e.no = no)
Did(no, op, ok) ==
  \E i \in 1..Len(log) :
    log[i].op = op /\ log[i].ok = ok /\ log[i].op # "GET"
    /\ log[i].op # "yield" /\ log[i].no = no

(***************************************************************************)
(* C1: after a response that reports remaining quota <= 1 and a reset time *)
(* in the future, the next request is not sent before the reported delay   *)
(* (reset - now + 1 seconds) has passed, that is not before reset + 1.     *)
(***************************************************************************)
RateLimited(resp, t) ==
  /\ {"x-ratelimit-remaining", "x-ratelimit-reset"} \subseteq DOMAIN resp.headers
  /\ resp.headers["x-ratelimit-remaining"] <= 1
  /\ resp.headers["x-ratelimit-reset"] > t

C1_NoRequestBeforeReset ==
  [][(RequestSent /\ RateLimited(r, now))
       => now' >= r.headers["x-ratelimit-reset"] + 1]_vars

(***************************************************************************)
(* C2: a walk over N pages, each but the last with a next pointer, sends N *)
(* requests and hands on the records of the pages in server order, none    *)
(* dropped, repeated or moved: the repository list to main(), the issue    *)
(* list to save_issue, the comment pages into comments.                    *)
(***************************************************************************)
C2_WalkYieldsPagesInOrder ==
  /\ IsPrefix(Yielded, Records(RepoPages))
  /\ pc = "done" => Yielded = Records(RepoPages) /\ Complete(RepoPages)
  /\ \A no \in 1..Len(Yields) :
       LET name == Yields[no].rec.full_name IN
       Did(no, "issues", TRUE) =>
         /\ IsPrefix(Entered(no), Numbers(Records(IssuePages(name))))
         /\ (pc \in {"list", "done"} \/ no < Len(Yields)) =>
              /\ Entered(no) = Numbers(Records(IssuePages(name)))
              /\ Complete(IssuePages(name))
  /\ pc = "comments" =>
       IsPrefix(comments, Records(CommentPages(repo.full_name, issue.number)))
  /\ pc = "write_comments" =>
       /\ comments = Records(CommentPages(repo.full_name, issue.number))
       /\ Complete(CommentPages(repo.full_name, issue.number))

C2_Witness ==
  /\ pc = "done"
  /\ Len(RepoPages) = 2
  /\ RepoPages[1].body # <<>>
  /\ RepoPages[2].body # <<>>
  /\ Len(Yielded) = 2

(***************************************************************************)
(* C3: with compression on, the mirror directory is removed only once the  *)
(* archive is completely written; when the archive step fails after a good *)
(* clone, the mirror is still there, complete, and the error propagates.   *)
(***************************************************************************)
MirrorOf(no) == Mirror(Yields[no].rec.clone_url, TRUE)
PathOf(no) == repo_path(dest, Yields[no].rec)
MirrorKept(no) ==
  /\ PathOf(no) \o <<"repository">> \in DOMAIN fs
  /\ fs[PathOf(no) \o <<"repository">>] = MirrorOf(no)
Archived(no) ==
  /\ PathOf(no) \o <<"repository.tar.xz">> \in DOMAIN fs
  /\ fs[PathOf(no) \o <<"repository.tar.xz">>] = File(<<MirrorOf(no)>>)

C3_MirrorOutlivesFailedArchive ==
  \A no \in 1..Len(Yields) :
    Did(no, "clone", TRUE) =>
      /\ MirrorKept(no) \/ Archived(no)
      /\ Did(no, "archive", FALSE) =>
           MirrorKept(no) /\ pc = "failed" /\ err = "OSError"

C3_Witness ==
  \E no \in 1..Len(Yields) :
    /\ Did(no, "clone", TRUE)
    /\ Did(no, "archive", FALSE)
    /\ PathOf(no) \o <<"repository.tar.xz">> \in DOMAIN fs
    /\ MirrorKept(no)

(***************************************************************************)
(* C4: when the archive step fails after a good clone, repository.tar.xz   *)
(* is absent or a complete archive, never a partial file.                  *)
(***************************************************************************)
C4_NoPartialArchive ==
  \A no \in 1..Len(Yields) :
    Did(no, "archive", FALSE) =>
      \/ PathOf(no) \o <<"repository.tar.xz">> \notin DOMAIN fs
      \/ fs[PathOf(no) \o <<"repository.tar.xz">>].complete

(***************************************************************************)
(* C5: a response whose status is not a success status fails the run: once *)
(* it has been received the process is stopped with an error, and no       *)
(* request, write or external process follows.                             *)
(***************************************************************************)
NonSuccess(resp) ==
  resp # NoResponse /\ (resp.status < 200 \/ resp.status > 299)

C5_ErrorStatusEndsRun ==
  [][NonSuccess(r) => (pc = "failed" /\ fs' = fs /\ log' = log)]_vars

(***************************************************************************)
(* C6: when the destination root exists as the run starts, the run fails   *)
(* before any request is sent and nothing under the root is created or     *)
(* changed.                                                                *)
(***************************************************************************)
C6_ExistingDestFailsFirst ==
  dest \in DOMAIN fs0 =>
    /\ fs = fs0
    /\ log = <<>>
    /\ pc \in {"start", "makedest", "failed", "exit"}

C6_Witness ==
  /\ dest \o <<"stale">> \in DOMAIN fs0
  /\ creds
  /\ pc = "failed"
  /\ err = "FileExistsError"

(***************************************************************************)
(* C7: for every repository the steps come in the order create directory,  *)
(* write repository-info.json, mirror-clone, (compress) archive and delete *)
(* the mirror, (include_issues) export issues, each only after the one     *)
(* before succeeded; after a clone that failed neither the archive nor the *)
(* issue export is started for it.                                         *)
(***************************************************************************)
Pipeline ==
  <<"mkdir", "info", "clone">>
  \o (IF archive THEN <<"archive", "rmtree">> ELSE <<>>)
  \o (IF backup_issues THEN <<"issues">> ELSE <<>>)

PipelineSteps(no) ==
  SelectSeq(log, LAMBDA e : /\ e.op \in {"mkdir", "info", "clone", "archive",
                                         "rmtree", "issues"}
                            /\ e.no = no)

C7_PipelineOrder ==
  \A no \in 1..Len(Yields) :
    LET st == PipelineSteps(no) IN
    /\ Len(st) <= Len(Pipeline)
    /\ \A i \in 1..Len(st) :
         st[i].op = Pipeline[i] /\ (i < Len(st) => st[i].ok)
    /\ Did(no, "clone", FALSE) =>
         /\ \A op \in {"archive", "rmtree", "issues", "issue", "comments"} :
              \A ok \in BOOLEAN : ~Did(no, op, ok)
         /\ IssuePages(Yields[no].rec.full_name) = <<>>
    /\ \A op \in {"issue", "comments"} : \A ok \in BOOLEAN :
         Did(no, op, ok) => Did(no, "issues", TRUE)

C7_Witness ==
  /\ archive
  /\ backup_issues
  /\ \E no \in 1..Len(Yields) : Did(no, "clone", FALSE)

(***************************************************************************)
(* C8: a failure of any step of one repository's pipeline (directory,      *)
(* metadata, clone, archive, issue export) halts the whole run: nothing is *)
(* requested, created or cloned for a later repository.                    *)
(***************************************************************************)
C8_FailureHaltsRun ==
  \A i \in 1..Len(log) :
    ~log[i].ok => i = Len(log) /\ pc = "failed" /\ err # "none"

C8_Witness ==
  /\ pc = "failed"
  /\ Len(Yields) = 1
  /\ Did(1, "clone", FALSE)
  /\ Len(Records(RepoPages)) = 2
  /\ ~Records(RepoPages)[2].private
  /\ Records(RepoPages)[2].full_name # Records(RepoPages)[1].full_name

(***************************************************************************)
(* C9: a record with private = true never enters the pipeline: it gets no  *)
(* directory, metadata file, clone, archive or issue request, and the      *)
(* enumeration goes on with the next record.                               *)
(***************************************************************************)
PublicNamesake(rec) ==
  \E m \in 1..Len(Yields) :
    Yields[m].rec.full_name = rec.full_name /\ ~Yields[m].rec.private

C9_PrivateSkipped ==
  /\ \A no \in 1..Len(Yields) :
       LET rec == Yields[no].rec IN
       rec.private =>
         /\ Steps(no) = <<>>
         /\ ~PublicNamesake(rec) =>
              /\ \A q \in DOMAIN fs : ~IsPrefix(repo_path(dest, rec), q)
              /\ \A i \in 1..Len(log) :
                   log[i].op = "GET" => log[i].url.repo # rec.full_name
  /\ (log # <<>> /\ Last(log).op = "yield" /\ Last(log).rec.private) =>
       /\ err = "none"
       /\ pc \in {"list", "done"}
       /\ pc = "done" => repos = <<>> /\ next_page = None

C9_Witness ==
  \E no \in 1..Len(Yields) :
    /\ Yields[no].rec.private
    /\ no < Len(Yields)
    /\ Did(no + 1, "clone", TRUE)

(***************************************************************************)
(* C10: when the export of an issue is complete, <number>.json holds the   *)
(* issue record and <number>.comments.json holds the comments of all of    *)
(* its comment pages in server order (none: the empty sequence), however   *)
(* the comments are split over the pages.                                  *)
(***************************************************************************)
IssueServed(name, num) ==
  LET served == Records(IssuePages(name)) IN
  served[CHOOSE k \in 1..Len(served) : served[k].number = num]

IssueFilesOf(no, num) ==
  LET dir == PathOf(no) \o <<"issues">>
      name == Yields[no].rec.full_name
  IN /\ dir \o <<ToString(num) \o ".json">> \in DOMAIN fs
     /\ fs[dir \o <<ToString(num) \o ".json">>] = File(<<IssueServed(name, num)>>)
     /\ dir \o <<ToString(num) \o ".comments.json">> \in DOMAIN fs
     /\ fs[dir \o <<ToString(num) \o ".comments.json">>]
          = File(Records(CommentPages(name, num)))

C10_IssueAndCommentFiles ==
  \A i \in 1..Len(log) :
    (log[i].op = "comments" /\ log[i].ok) => IssueFilesOf(log[i].no, log[i].num)

C10_Witness ==
  \E i \in 1..Len(log) :
    /\ log[i].op = "comments"
    /\ log[i].ok
    /\ LET pages == CommentPages(Yields[log[i].no].rec.full_name, log[i].num)
       IN Len(pages) = 2 /\ pages[1].body # <<>> /\ pages[2].body # <<>>

(***************************************************************************)
(* C11: the delay the governor reports is (reset - now) + 1 seconds        *)
(* whenever remaining <= 1 and the reset lies ahead, however far ahead     *)
(* (more than a day included), and 0 whenever remaining >= 2.              *)
(***************************************************************************)
Remaining(resp) == resp.headers["x-ratelimit-remaining"]
Reset(resp) == resp.headers["x-ratelimit-reset"]

C11_DelayIsResetDistance ==
  pc = "governed" =>
    /\ (Remaining(r) <= 1 /\ Reset(r) > now) => delay = (Reset(r) - now) + 1
    /\ Remaining(r) >= 2 => delay = 0

(***************************************************************************)
(* C12: when remaining <= 1 and the reset lies in the past by more than a  *)
(* second, the delay computed is <= 0: no positive delay is reported for a *)
(* reset time that has passed.                                             *)
(***************************************************************************)
C12_PastResetNoDelay ==
  (pc = "governed" /\ Remaining(r) <= 1 /\ Reset(r) < now - 1) => delay <= 0

(***************************************************************************)
(* C13: a successful response without the remaining-quota counter or the   *)
(* reset time gives delay 0 and the walk goes on: no run is ended by the   *)
(* lookup of a rate limit header the response does not carry (KeyError).   *)
(***************************************************************************)
C13_MissingMetadataNoFailure ==
  ~(/\ pc = "failed"
    /\ err = "KeyError"
    /\ Last(log).op = "GET"
    /\ r.status = 200)

(***************************************************************************)
(* C14: creating the destination directory of a repository fails fatally   *)
(* when the directory exists already (the enumeration returned the same    *)
(* full_name twice), and what had been written for it before               *)
(* (repository-info.json, mirror or archive, issue files) stays as it is.  *)
(***************************************************************************)
C14_ExistingRepoDirFails ==
  [][(pc = "mkdir" /\ path \in DOMAIN fs) =>
       /\ pc' = "failed"
       /\ err' = "FileExistsError"
       /\ fs' = fs]_vars

C14_Witness ==
  /\ pc = "failed"
  /\ err = "FileExistsError"
  /\ Len(Yields) = 2
  /\ Yields[1].rec.full_name = Yields[2].rec.full_name
  /\ Did(2, "mkdir", FALSE)
  /\ Did(1, "clone", TRUE)
  /\ PathOf(1) \o <<"repository-info.json">> \in DOMAIN fs
  /\ \E num \in 1..MaxRecords :
       PathOf(1) \o <<"issues", ToString(num) \o ".comments.json">> \in DOMAIN fs

(***************************************************************************)
(* C15: after a run that ended without error every non-private repository *)
(* of the enumeration has its directory with repository-info.json, with    *)
(* repository/ (archive off) or repository.tar.xz (archive on) and never   *)
(* both, and with issues/ exactly when the issues are backed up.           *)
(***************************************************************************)
Has(no, name) == PathOf(no) \o <<name>> \in DOMAIN fs

BackedUp(no) ==
  /\ PathOf(no) \in DOMAIN fs
  /\ fs[PathOf(no)] = Dir
  /\ Has(no, "repository-info.json")
  /\ IF archive
     THEN Archived(no) /\ ~Has(no, "repository")
     ELSE MirrorKept(no) /\ ~Has(no, "repository.tar.xz")
  /\ Has(no, "issues") <=> backup_issues

C15_CompleteBackupLayout ==
  (pc = "done" /\ err = "none") =>
    /\ Yielded = Records(RepoPages)
    /\ \A no \in 1..Len(Yields) : ~Yields[no].rec.private => BackedUp(no)

C15_Witness ==
  /\ pc = "done"
  /\ err = "none"
  /\ archive
  /\ backup_issues
  /\ Len(Yields) = 2
  /\ ~Yields[1].rec.private
  /\ ~Yields[2].rec.private

(***************************************************************************)
(* C16: the effects on the filesystem are additive: a file that has been   *)
(* written (repository-info.json, repository.tar.xz, an issue file, a      *)
(* comments file) is neither changed nor removed by a later step or by the *)
(* failure of a later step, and the only thing the run ever removes is the *)
(* mirror directory, after its archive has been written.                   *)
(***************************************************************************)
Written(f) == { p \in DOMAIN f : f[p].kind = "file" /\ f[p].complete }

ExportFetchFailed(i) ==
  /\ log[i].op = "GET"
  /\ ~log[i].ok
  /\ log[i].url.ep \in {"issues", "comments"}

\* the files of issues/ of the no-th record that the history accounts for
ExportedFiles(no) ==
  { PathOf(no) \o <<"issues", ToString(log[j].num) \o ".json">> :
      j \in { k \in 1..Len(log) : log[k].op = "issue" /\ log[k].ok /\ log[k].no = no } }
  \cup
  { PathOf(no) \o <<"issues", ToString(log[j].num) \o ".comments.json">> :
      j \in { k \in 1..Len(log) : log[k].op = "comments" /\ log[k].ok /\ log[k].no = no } }

C17_FetchFailureAbortsExport ==
  \A i \in 1..Len(log) :
    ExportFetchFailed(i) =>
      /\ pc = "failed"
      /\ err \in {"HTTPError", "KeyError", "ValueError"}
      /\ \A j \in (i + 1)..Len(log) : log[j].op \notin {"issue", "comments", "GET"}
      /\ LET no == Len(Yields)
             dir == PathOf(no) \o <<"issues">>
         IN \A p \in DOMAIN fs :
              (p # dir /\ IsPrefix(dir, p)) => p \in ExportedFiles(no)

C17_Witness ==
  /\ pc = "failed"
  /\ log # <<>>
  /\ ExportFetchFailed(Len(log))
  /\ Last(log).url.ep = "comments"
  /\ Did(Len(Yields), "comments", TRUE)
  /\ Len(Records(IssuePages(Last(log).url.repo))) = 2

(***************************************************************************)
(* C18: in every walk each request after the first goes to exactly the     *)
(* next pointer of the response before it in that walk, the first goes to  *)
(* the URL the walk starts from, and the walk ends exactly when a response *)
(* carries no next pointer.                                                *)
(***************************************************************************)
Follows(pages, first) ==
  \A k \in 1..Len(pages) :
    /\ pages[k].url # None
    /\ pages[k].url = IF k = 1 THEN first ELSE pages[k - 1].next

\* the walk has ended without error: what follows it has begun
IssueWalkEnded(no) ==
  \/ no < Len(Yields)
  \/ no = Len(Yields) /\ pc = "done"
ExportedBy(no) ==
  backup_issues /\ ~Yields[no].rec.private /\ Did(no, "issues", TRUE)

C18_RequestsFollowPointers ==
  /\ Follows(RepoPages, ReposUrl)
  /\ pc = "done" => Complete(RepoPages)
  /\ \A no \in 1..Len(Yields) :
       LET rec == Yields[no].rec IN
       /\ Follows(IssuePages(rec.full_name), IssuesUrl(rec))
       /\ (ExportedBy(no) /\ IssueWalkEnded(no)) =>
            Complete(IssuePages(rec.full_name))
       /\ \A k \in 1..Len(Records(IssuePages(rec.full_name))) :
            LET i == Records(IssuePages(rec.full_name))[k] IN
            /\ Follows(CommentPages(rec.full_name, i.number), i.comments_url)
            /\ (\E j \in 1..Len(log) : log[j].op = "issue" /\ log[j].num = i.number)
                 => Complete(CommentPages(rec.full_name, i.number))

C18_Witness ==
  /\ pc = "done"
  /\ \E no \in 1..Len(Yields) :
       /\ Len(IssuePages(Yields[no].rec.full_name)) = 2
       /\ Complete(IssuePages(Yields[no].rec.full_name))
       /\ \E k \in 1..Len(Records(IssuePages(Yields[no].rec.full_name))) :
            CommentPages(Yields[no].rec.full_name,
                         Records(IssuePages(Yields[no].rec.full_name))[k].number) # <<>>

(***************************************************************************)
(* C19: the enumeration is lazy: a page of the repository list is          *)
(* requested only when every record of the pages before it has been        *)
(* yielded and skipped or taken through its whole pipeline, so after a     *)
(* failure on one page the next page is never requested.                   *)
(***************************************************************************)
ExportDone(no) ==
  LET name == Yields[no].rec.full_name IN
  /\ Complete(IssuePages(name))
  /\ \A k \in 1..Len(Records(IssuePages(name))) :
       IssueFilesOf(no, Records(IssuePages(name))[k].number)

PipelineDone(no) ==
  /\ BackedUp(no)
  /\ backup_issues => ExportDone(no)

C19_LazyEnumeration ==
  [][(RequestSent /\ Last(log').url.ep = "repos") =>
       /\ \A j \in 1..Len(log) : log[j].ok
       /\ Yielded = Records(RepoPages)
       /\ \A no \in 1..Len(Yields) :
            ~Yields[no].rec.private => PipelineDone(no)]_vars

C19_Witness ==
  /\ Len(RepoPages) = 2
  /\ backup_issues
  /\ Len(RepoPages[1].body) = 2
  /\ ~RepoPages[1].body[1].private
  /\ RepoPages[1].body[2].private
  /\ Did(1, "comments", TRUE)

(***************************************************************************)
(* C20: the two files of an issue are written only when all its comment    *)
(* pages have been fetched: when the run ends on a failed API request,     *)
(* every issue of the repository has both <number>.json and                *)
(* <number>.comments.json, the latter with the whole thread, or neither.   *)
(***************************************************************************)
NoIssueFilesOf(no, num) ==
  /\ PathOf(no) \o <<"issues", ToString(num) \o ".json">> \notin DOMAIN fs
  /\ PathOf(no) \o <<"issues", ToString(num) \o ".comments.json">> \notin DOMAIN fs

EndedOnApiFailure ==
  pc = "failed" /\ log # <<>> /\ Last(log).op = "GET" /\ ~Last(log).ok

C20_BothIssueFilesOrNeither ==
  EndedOnApiFailure =>
    \A no \in 1..Len(Yields) :
      LET served == Records(IssuePages(Yields[no].rec.full_name)) IN
      \A k \in 1..Len(served) :
        \/ /\ IssueFilesOf(no, served[k].number)
           /\ Complete(CommentPages(Yields[no].rec.full_name, served[k].number))
        \/ NoIssueFilesOf(no, served[k].number)

C20_Witness ==
  /\ EndedOnApiFailure
  /\ Last(log).url.ep = "comments"
  /\ Len(CommentPages(Last(log).url.repo, Last(log).url.num)) = 2
  /\ CommentPages(Last(log).url.repo, Last(log).url.num)[1].body # <<>>
  /\ \E i \in 1..Len(log) :
       log[i].op = "comments" /\ log[i].ok /\ log[i].num # Last(log).url.num

====
